---- MODULE Spec2Model ----
(***************************************************************************)
(* A model of the semantic code search pipeline: the chunker               *)
(* (crates/code-parsers, crates/semantic_index/src/chunking_v2.rs), the    *)
(* GPU embedding provider (crates/semantic_index/src/embedding/gpu.rs),    *)
(* the Qdrant vector store (crates/semantic_index/src/vector_store) and    *)
(* the semantic search tool (crates/assistant_tools).                      *)
(*                                                                         *)
(* A text is a sequence of bytes.  Bytes are strings: "a" is any ASCII     *)
(* byte that is neither a line feed nor a carriage return, LF and CR are   *)
(* the two line terminator bytes, and "xC3" "xA9" are the lead and the     *)
(* continuation byte of one two-byte UTF-8 character.                      *)
(***************************************************************************)
EXTENDS Integers, Sequences, FiniteSets, TLC

VARIABLES
    call,       \* chunker: the function called
    text,       \* chunker: the source text of the call
    arg,        \* chunker: the language option, language name or file path
    tree,       \* chunker: what tree-sitter answers for this text
    ret,        \* chunker: the value the call returned, once it has
    collections,\* store: the collections of the Qdrant server
    first_size, \* store: per name, the dimension of its first create call
    latest,     \* store: per collection, the documents last inserted
    reply,      \* store and tool: the answer of the last call
    embed_texts,    \* embed: the texts of the call
    batch_size,     \* embed: the provider's batch size
    consumed,       \* embed: the number of texts embedded so far
    all_embeddings, \* embed: the embeddings collected so far
    embed_ret,      \* embed: the value the call returned, once it has
    outcomes,       \* embed: how each micro-batch run so far ended
    stage,          \* concurrent embed calls: where each caller is
    todo,           \* concurrent embed calls: micro-batches left per caller
    holder,         \* concurrent embed calls: who holds the model's lock
    creating        \* concurrent create_collection calls, per caller

chunkerVars == <<call, text, arg, tree, ret>>

storeVars == <<collections, first_size, latest, reply>>

embedVars ==
    <<embed_texts, batch_size, consumed, all_embeddings, embed_ret, outcomes>>

callerVars == <<stage, todo, holder, creating>>

vars == <<call, text, arg, tree, ret, collections, first_size, latest, reply,
          embed_texts, batch_size, consumed, all_embeddings, embed_ret,
          outcomes, stage, todo, holder, creating>>

----------------------------------------------------------------------------
(* Bounds of the model. *)

MaxChars == 3
MaxParsedChars == 3
MaxUnit == 2
MaxLineWindows == 2
MaxByteWindows == 1
MaxMatches == 3

MaxUuids == 2

MaxBatch == 2

MaxLimit == 2

MaxWords == 1

MaxTexts == 3

MaxBatchSize == 3

MaxCallers == 2

MaxMicroBatches == 2

(* Program constants. *)

LINE_CHUNK_SIZE == 50
MAX_CHUNK_SIZE == 1000

----------------------------------------------------------------------------
(* Texts. *)

LF == "LF"
CR == "CR"
Lead == "xC3"
Cont == "xA9"

Chars == {<<"a">>, <<LF>>, <<CR>>, <<Lead, Cont>>}
LineChars == {<<"a">>, <<LF>>, <<CR>>}
ByteChars == {<<"a">>, <<LF>>, <<Lead, Cont>>}
ParsedChars == {<<"a">>, <<LF>>}

RECURSIVE Flatten(_)
Flatten(cs) == IF cs = <<>> THEN <<>> ELSE Head(cs) \o Flatten(Tail(cs))

TextsOf(chars, n) == {Flatten(cs) : cs \in UNION {[1..k -> chars] : k \in 0..n}}

Repeat(u, k) == [i \in 1..(k * Len(u)) |-> u[((i - 1) % Len(u)) + 1]]

SmallTexts == TextsOf(Chars, MaxChars)

(* Long texts: a unit repeated, up to a few windows of lines or of bytes.  *)
LineUnits == TextsOf(LineChars, MaxUnit) \ {<<>>}
ByteUnits == TextsOf(ByteChars, MaxUnit) \ {<<>>}

Remainders(size) == {0, 1, size \div 2, size - 1}

LongLineTexts ==
    {Repeat(u, q * LINE_CHUNK_SIZE + r) :
        u \in LineUnits, q \in 1..MaxLineWindows, r \in Remainders(LINE_CHUNK_SIZE)}

LongByteTexts ==
    {Repeat(u, q * MAX_CHUNK_SIZE + r) :
        u \in ByteUnits, q \in 1..MaxByteWindows, r \in Remainders(MAX_CHUNK_SIZE)}

(* str::len, str::is_char_boundary and the slice text[s..e], on 0-based    *)
(* byte offsets.                                                           *)
IsCharBoundary(t, i) ==
    \/ i = 0
    \/ i = Len(t)
    \/ i > 0 /\ i < Len(t) /\ t[i + 1] # Cont

Slice(t, s, e) == SubSeq(t, s + 1, e)

(* str::lines: split after every LF, drop the LF and one CR before it; a   *)
(* final line without LF is kept as it is, an empty rest yields no line.   *)
(* The recursions below halve their range, so that a long text costs a     *)
(* shallow evaluation.                                                     *)
RECURSIVE LFsIn(_, _, _)
LFsIn(t, lo, hi) ==
    IF lo > hi THEN <<>>
    ELSE IF lo = hi THEN (IF t[lo] = LF THEN <<lo>> ELSE <<>>)
    ELSE LET mid == (lo + hi) \div 2
         IN  LFsIn(t, lo, mid) \o LFsIn(t, mid + 1, hi)

StripCR(l) ==
    IF Len(l) > 0 /\ l[Len(l)] = CR THEN SubSeq(l, 1, Len(l) - 1) ELSE l

Lines(t) ==
    LET lfs == LFsIn(t, 1, Len(t))
        m == Len(lfs)
        last == IF m = 0 THEN 0 ELSE lfs[m]
        terminated ==
            [k \in 1..m |->
                StripCR(SubSeq(t, (IF k = 1 THEN 0 ELSE lfs[k - 1]) + 1,
                               lfs[k] - 1))]
    IN  IF last < Len(t)
        THEN terminated \o <<SubSeq(t, last + 1, Len(t))>>
        ELSE terminated

(* [T]::join over ls[lo..hi]. *)
RECURSIVE JoinRange(_, _, _, _)
JoinRange(ls, sep, lo, hi) ==
    IF lo > hi THEN <<>>
    ELSE IF lo = hi THEN ls[lo]
    ELSE LET mid == (lo + hi) \div 2
         IN  JoinRange(ls, sep, lo, mid) \o sep \o JoinRange(ls, sep, mid + 1, hi)

Join(ls, sep) == JoinRange(ls, sep, 1, Len(ls))

----------------------------------------------------------------------------
(* crates/code-parsers: CodeParser. *)

(* The capture names of each language's query, in the order of their first *)
(* use in the query text (Query::capture_names).                           *)
Parsers ==
    [rust |-> <<"function", "impl", "struct", "enum", "trait">>,
     javascript |-> <<"function", "class", "method">>,
     typescript |-> <<"function", "class", "method">>,
     python |-> <<"function", "class">>,
     go |-> <<"function", "method", "type">>]

Supported(language) == language \in DOMAIN Parsers

EndsWith(path, suffix) ==
    /\ Len(path) >= Len(suffix)
    /\ SubSeq(path, Len(path) - Len(suffix) + 1, Len(path)) = suffix

detect_language(file_path) ==
    IF EndsWith(file_path, <<".", "r", "s">>) THEN "rust"
    ELSE IF \/ EndsWith(file_path, <<".", "j", "s">>)
            \/ EndsWith(file_path, <<".", "j", "s", "x">>) THEN "javascript"
    ELSE IF \/ EndsWith(file_path, <<".", "t", "s">>)
            \/ EndsWith(file_path, <<".", "t", "s", "x">>) THEN "typescript"
    ELSE IF EndsWith(file_path, <<".", "p", "y">>) THEN "python"
    ELSE IF EndsWith(file_path, <<".", "g", "o">>) THEN "go"
    ELSE "unknown"

(* A variant that reads the capture names from 1. *)
get_element_type_from_one(capture_index, query) ==
    IF capture_index \in DOMAIN query THEN query[capture_index]
    ELSE "unknown"

get_element_type(capture_index, query) ==
    IF capture_index + 1 \in DOMAIN query THEN query[capture_index + 1]
    ELSE "unknown"

(* A variant whose end_line is the line after the window's last. *)
chunk_by_lines_end_after(content, chunk_size) ==
    LET lines == Lines(content)
        n == Len(lines)
        windows == (n + chunk_size - 1) \div chunk_size
    IN  [w \in 1..windows |->
            LET i == w - 1
                chunk == SubSeq(lines, i * chunk_size + 1,
                                IF (i + 1) * chunk_size < n
                                THEN (i + 1) * chunk_size ELSE n)
            IN  [start_line |-> i * chunk_size,
                 end_line |-> i * chunk_size + Len(chunk),
                 content |-> Join(chunk, <<LF>>),
                 element_type |-> "code_block"]]

chunk_by_lines(content, chunk_size) ==
    LET lines == Lines(content)
        n == Len(lines)
        windows == (n + chunk_size - 1) \div chunk_size
    IN  [w \in 1..windows |->
            LET i == w - 1
                chunk == SubSeq(lines, i * chunk_size + 1,
                                IF (i + 1) * chunk_size < n
                                THEN (i + 1) * chunk_size ELSE n)
                start_line == i * chunk_size
                end_line == start_line + Len(chunk) - 1
            IN  [start_line |-> start_line,
                 end_line |-> end_line,
                 content |-> Join(chunk, <<LF>>),
                 element_type |-> "code_block"]]

(* tree-sitter's Point of a byte offset: the row is the number of line     *)
(* feeds before it.                                                        *)
Row(t, offset) == Cardinality({i \in 1..offset : t[i] = LF})

(* Parser::parse answers None or a tree; the tree is known here by the     *)
(* matches the query cursor finds in it, in the cursor's order.            *)
NoTree == [parsed |-> FALSE, matches |-> <<>>]
Tree(matches) == [parsed |-> TRUE, matches |-> matches]

RECURSIVE Captures(_)
Captures(matches) ==
    IF matches = <<>> THEN <<>> ELSE Head(matches) \o Captures(Tail(matches))

Ok(v) == [status |-> "ok", chunks |-> v, error |-> ""]
Err(e) == [status |-> "err", chunks |-> <<>>, error |-> e]
Panicked == [status |-> "panic", chunks |-> <<>>, error |-> ""]
NotReturned == [status |-> "none", chunks |-> <<>>, error |-> ""]

parse_with_query(content, query, parsed) ==
    IF ~parsed.parsed THEN Err("Failed to parse code")
    ELSE
        LET captures == Captures(parsed.matches)
            chunks ==
                [k \in 1..Len(captures) |->
                    LET node == captures[k].node
                    IN  [start_line |-> Row(content, node[1]),
                         end_line |-> Row(content, node[2]),
                         content |-> Slice(content, node[1], node[2]),
                         element_type |->
                             get_element_type(captures[k].index, query)]]
        IN  IF Len(captures) = 0
            THEN Ok(chunk_by_lines(content, LINE_CHUNK_SIZE))
            ELSE Ok(chunks)

get_chunks_from_content(content, language, parsed) ==
    IF Supported(language)
    THEN parse_with_query(content, Parsers[language], parsed)
    ELSE Ok(chunk_by_lines(content, LINE_CHUNK_SIZE))

get_chunks(file_path, content, parsed) ==
    LET language == detect_language(file_path)
    IN  IF Supported(language)
        THEN parse_with_query(content, Parsers[language], parsed)
        ELSE Ok(chunk_by_lines(content, LINE_CHUNK_SIZE))

----------------------------------------------------------------------------
(* crates/semantic_index/src/chunking_v2.rs. *)

HasLFIn(t, s, e) == \E i \in (s + 1)..e : t[i] = LF

(* text[s..e].rfind('\n'), as a 0-based offset into the text. *)
RFindLF(t, s, e) ==
    (CHOOSE i \in (s + 1)..e : t[i] = LF /\ \A j \in (i + 1)..e : t[j] # LF) - 1

RECURSIVE SimpleLoop(_, _, _)
SimpleLoop(t, max_chunk_size, start) ==
    IF ~(start < Len(t)) THEN Ok(<<>>)
    ELSE
        LET end == IF start + max_chunk_size < Len(t)
                   THEN start + max_chunk_size ELSE Len(t)
        IN  IF end < Len(t) /\ ~IsCharBoundary(t, end) THEN Panicked
            ELSE
                LET chunk_end ==
                        IF end < Len(t)
                        THEN IF HasLFIn(t, start, end)
                             THEN RFindLF(t, start, end) + 1
                             ELSE end
                        ELSE end
                    chunk == [range |-> <<start, chunk_end>>,
                              content |-> Slice(t, start, chunk_end),
                              element_type |-> "text_block"]
                    rest == SimpleLoop(t, max_chunk_size, chunk_end)
                IN  IF rest.status = "panic" THEN Panicked
                    ELSE Ok(<<chunk>> \o rest.chunks)

(* A variant that cuts at the window's end and never looks for a line feed. *)
RECURSIVE HardCutLoop(_, _, _)
HardCutLoop(t, max_chunk_size, start) ==
    IF ~(start < Len(t)) THEN Ok(<<>>)
    ELSE
        LET end == IF start + max_chunk_size < Len(t)
                   THEN start + max_chunk_size ELSE Len(t)
            rest == HardCutLoop(t, max_chunk_size, end)
        IN  IF ~IsCharBoundary(t, end) \/ rest.status = "panic" THEN Panicked
            ELSE Ok(<<[range |-> <<start, end>>,
                       content |-> Slice(t, start, end),
                       element_type |-> "text_block"]>> \o rest.chunks)

chunk_text_simple_hard_cut(t, max_chunk_size) == HardCutLoop(t, max_chunk_size, 0)

chunk_text_simple(t, max_chunk_size) == SimpleLoop(t, max_chunk_size, 0)

(* lines.map(|l| l.len() + 1).sum() over lines[lo..hi]. *)
RECURSIVE SumRange(_, _, _)
SumRange(lines, lo, hi) ==
    IF lo > hi THEN 0
    ELSE IF lo = hi THEN Len(lines[lo]) + 1
    ELSE LET mid == (lo + hi) \div 2
         IN  SumRange(lines, lo, mid) + SumRange(lines, mid + 1, hi)

(* text.lines().take(k).map(|l| l.len() + 1).sum() *)
SumLens(lines, k) == SumRange(lines, 1, IF k < Len(lines) THEN k ELSE Len(lines))

NoLanguage == "None"

chunk_text(t, language, parsed) ==
    IF language # NoLanguage
    THEN
        LET got == get_chunks_from_content(t, language, parsed)
            lines == Lines(t)
        IN  IF got.status = "err" THEN got
            ELSE Ok([k \in 1..Len(got.chunks) |->
                    LET pc == got.chunks[k]
                        start_byte == SumLens(lines, pc.start_line)
                        total == SumLens(lines, pc.end_line + 1)
                        end_byte == IF total > 0 THEN total - 1 ELSE 0
                    IN  [range |-> <<start_byte, end_byte>>,
                         content |-> pc.content,
                         element_type |-> pc.element_type]])
    ELSE chunk_text_simple(t, MAX_CHUNK_SIZE)

----------------------------------------------------------------------------
(* The vector store: crates/semantic_index/src/vector_store.rs and          *)
(* vector_store/qdrant.rs.  The Qdrant server is outside the repository:    *)
(* its state is the variable collections, and its answers are the           *)
(* operators below whose names start with Qdrant.  A document id is a       *)
(* string; the model writes the string as a pair <<shape, n>>:              *)
(* <<"uuid", n>> is the canonical text of the n-th UUID, <<"decimal", n>>   *)
(* the decimal digits of n, and <<"empty", 0>> is "".  A similarity is a    *)
(* cosine times 100, rounded down.                                          *)

CollectionNames == {"code"}

VectorSizes == {2, 3}

UuidIds == {<<"uuid", n>> : n \in 1..MaxUuids}

DocumentIds == UuidIds \cup {<<"decimal", 42>>}

IsUuidText(id) == id[1] = "uuid"

to_string(num) == <<"decimal", num>>

EmptyString == <<"empty", 0>>

Some(v) == [some |-> TRUE, v |-> v]

None == [some |-> FALSE, v |-> 0]

unwrap_or(option, default) == IF option.some THEN option.v ELSE default

(* The documents of the model: two versions of one chunk, each with its own *)
(* content and its own embedding.  All embeddings and all query vectors     *)
(* have the same length, so a cosine is a dot product over that length      *)
(* squared: the queries score 60 and -80, and 28 and 96.                    *)
Versions == {"v1", "v2"}

EmbeddingOf(version) == IF version = "v1" THEN <<3, 4>> ELSE <<-4, 3>>

DocumentMetadata(version) ==
    [file_path |-> "src/math.rs", start_line |-> 10, end_line |-> 12,
     content |-> version, language |-> "rust", element_type |-> "function",
     project_id |-> "project", worktree_id |-> "worktree"]

VectorDocument(id, version) ==
    [id |-> id, embedding |-> EmbeddingOf(version),
     metadata |-> DocumentMetadata(version)]

Documents == {VectorDocument(id, v) : id \in DocumentIds, v \in Versions}

QueryVectors == {<<5, 0>>, <<-3, 4>>}

Thresholds == {None, Some(50), Some(70)}

RECURSIVE Dot(_, _)
Dot(u, v) ==
    IF u = <<>> \/ v = <<>> THEN 0
    ELSE Head(u) * Head(v) + Dot(Tail(u), Tail(v))

Cosine100(u, v) == (Dot(u, v) * 100) \div Dot(u, u)

RECURSIVE SeqsUpTo(_, _)
SeqsUpTo(S, n) ==
    IF n = 0 THEN {<<>>}
    ELSE LET shorter == SeqsUpTo(S, n - 1)
         IN  shorter \cup {Append(s, x) : s \in shorter, x \in S}

(* Payload values, as qdrant_client::qdrant::Value. *)
StringValue(s) == [kind |-> "StringValue", s |-> s, n |-> 0]

IntegerValue(n) == [kind |-> "IntegerValue", s |-> "", n |-> n]

PointIdUuid(id) == [kind |-> "Uuid", uuid |-> id, num |-> 0]

PointStruct(doc) ==
    [id |-> PointIdUuid(doc.id),
     vectors |-> doc.embedding,
     payload |-> [file_path |-> StringValue(doc.metadata.file_path),
                  start_line |-> IntegerValue(doc.metadata.start_line),
                  end_line |-> IntegerValue(doc.metadata.end_line),
                  content |-> StringValue(doc.metadata.content),
                  language |-> StringValue(doc.metadata.language),
                  element_type |-> StringValue(doc.metadata.element_type),
                  project_id |-> StringValue(doc.metadata.project_id),
                  worktree_id |-> StringValue(doc.metadata.worktree_id)]]

(* The answers of the Qdrant server. *)
NotFound == "Not found: Collection doesn't exist!"

QdrantOk(cols, result) ==
    [ok |-> TRUE, error |-> "", cols |-> cols, result |-> result]

QdrantErr(cols, error) ==
    [ok |-> FALSE, error |-> error, cols |-> cols, result |-> <<>>]

HasCollection(cols, name) == \E c \in cols : c.name = name

CollectionOf(cols, name) == CHOOSE c \in cols : c.name = name

QdrantCollectionInfo(cols, name) ==
    IF HasCollection(cols, name) THEN QdrantOk(cols, <<>>)
    ELSE QdrantErr(cols, NotFound)

QdrantCreateCollection(cols, name, size, distance, on_disk) ==
    IF HasCollection(cols, name)
    THEN QdrantErr(cols, "Wrong input: Collection already exists!")
    ELSE QdrantOk(cols \cup {[name |-> name, size |-> size,
                              distance |-> distance, on_disk |-> on_disk,
                              points |-> {}]}, <<>>)

RECURSIVE UpsertAll(_, _)
UpsertAll(stored, points) ==
    IF points = <<>> THEN stored
    ELSE UpsertAll({p \in stored : p.id # Head(points).id}
                       \cup {Head(points)},
                   Tail(points))

QdrantUpsertPoints(cols, name, points) ==
    IF ~HasCollection(cols, name) THEN QdrantErr(cols, NotFound)
    ELSE IF \E i \in 1..Len(points) :
                points[i].id.kind = "Uuid" /\ ~IsUuidText(points[i].id.uuid)
    THEN QdrantErr(cols, "Unable to parse UUID")
    ELSE LET c == CollectionOf(cols, name) IN
         IF \E i \in 1..Len(points) : Len(points[i].vectors) # c.size
         THEN QdrantErr(cols, "Wrong input: Vector dimension error")
         ELSE QdrantOk((cols \ {c}) \cup
                       {[c EXCEPT !.points = UpsertAll(c.points, points)]},
                       <<>>)

QdrantDeletePoints(cols, name, ids) ==
    IF ~HasCollection(cols, name) THEN QdrantErr(cols, NotFound)
    ELSE IF \E i \in 1..Len(ids) :
                ids[i].kind = "Uuid" /\ ~IsUuidText(ids[i].uuid)
    THEN QdrantErr(cols, "Unable to parse UUID")
    ELSE LET c == CollectionOf(cols, name)
             gone == {ids[i] : i \in 1..Len(ids)}
         IN  QdrantOk((cols \ {c}) \cup
                      {[c EXCEPT !.points = {p \in c.points : p.id \notin gone}]},
                      <<>>)

ScoredPoint(p, vector) ==
    [id |-> p.id, payload |-> p.payload, score |-> Cosine100(vector, p.vectors)]

(* The lists Qdrant may answer a search with: the limit best of the points  *)
(* whose score reaches the threshold, best first; points of equal score     *)
(* come in any order.                                                       *)
TopScored(points, vector, limit, score_threshold) ==
    LET scored == {ScoredPoint(p, vector) : p \in points}
        passing == {s \in scored : s.score >= score_threshold}
        k == IF limit < Cardinality(passing) THEN limit
             ELSE Cardinality(passing)
    IN  {r \in [1..k -> passing] :
            /\ \A i, j \in 1..k : i < j =>
                   r[i].id # r[j].id /\ r[i].score >= r[j].score
            /\ \A s \in passing :
                   (\A i \in 1..k : r[i] # s) =>
                       \A i \in 1..k : r[i].score >= s.score}

(* A limit of 0 is refused by the request validation of some server         *)
(* versions and answered with no point by others: both are possible.        *)
QdrantSearchPoints(cols, name, vector, limit, score_threshold) ==
    IF ~HasCollection(cols, name) THEN {QdrantErr(cols, NotFound)}
    ELSE LET c == CollectionOf(cols, name) IN
         IF Len(vector) # c.size
         THEN {QdrantErr(cols, "Wrong input: Vector dimension error")}
         ELSE {QdrantOk(cols, r) :
                  r \in TopScored(c.points, vector, limit, score_threshold)}
              \cup (IF limit = 0
                    THEN {QdrantErr(cols, "Validation error: limit")}
                    ELSE {})

(* QdrantVectorStore. *)
StoreOk(cols, value) ==
    [status |-> "ok", error |-> "", cols |-> cols, value |-> value]

StoreErr(cols, error) ==
    [status |-> "err", error |-> error, cols |-> cols, value |-> <<>>]

collection_exists(cols, name) ==
    LET info == QdrantCollectionInfo(cols, name) IN
    IF info.ok THEN StoreOk(cols, TRUE)
    ELSE IF info.error = NotFound THEN StoreOk(cols, FALSE)
    ELSE StoreErr(cols, info.error)

create_collection_unchecked(cols, name, vector_size) ==
    LET made == QdrantCreateCollection(cols, name, vector_size, "Cosine", FALSE)
    IN  IF made.ok THEN StoreOk(made.cols, <<>>)
        ELSE StoreErr(made.cols, "Failed to create collection")

create_collection(cols, name, vector_size) ==
    LET exists == collection_exists(cols, name) IN
    IF exists.status = "err" THEN StoreErr(cols, exists.error)
    ELSE IF exists.value THEN StoreOk(cols, <<>>)
    ELSE LET made == QdrantCreateCollection(cols, name, vector_size,
                                            "Cosine", FALSE)
         IN  IF made.ok THEN StoreOk(made.cols, <<>>)
             ELSE StoreErr(made.cols, "Failed to create collection")

insert_documents_no_replace(cols, collection, documents) ==
    IF ~HasCollection(cols, collection)
    THEN StoreErr(cols, "Failed to insert documents")
    ELSE LET c == CollectionOf(cols, collection)
             added == {PointStruct(documents[i]) : i \in 1..Len(documents)}
         IN  StoreOk((cols \ {c}) \cup
                     {[c EXCEPT !.points = c.points \cup added]}, <<>>)

insert_documents(cols, collection, documents) ==
    LET points == [i \in 1..Len(documents) |-> PointStruct(documents[i])]
        upsert == QdrantUpsertPoints(cols, collection, points)
    IN  IF upsert.ok THEN StoreOk(upsert.cols, <<>>)
        ELSE StoreErr(upsert.cols, "Failed to insert documents")

StringField(payload, field) ==
    IF field \in DOMAIN payload /\ payload[field].kind = "StringValue"
    THEN payload[field].s ELSE ""

IntegerField(payload, field) ==
    IF field \in DOMAIN payload /\ payload[field].kind = "IntegerValue"
    THEN payload[field].n ELSE 0

SearchResult(point) ==
    [id |-> CASE point.id.kind = "Uuid" -> point.id.uuid
              [] point.id.kind = "Num" -> to_string(point.id.num)
              [] OTHER -> EmptyString,
     score |-> point.score,
     file_path |-> StringField(point.payload, "file_path"),
     start_line |-> IntegerField(point.payload, "start_line"),
     end_line |-> IntegerField(point.payload, "end_line"),
     content |-> StringField(point.payload, "content"),
     language |-> StringField(point.payload, "language"),
     element_type |-> StringField(point.payload, "element_type")]

search_with(cols, collection, query_vector, limit, score_threshold) ==
    {IF found.ok
     THEN StoreOk(cols, [i \in 1..Len(found.result) |->
                             SearchResult(found.result[i])])
     ELSE StoreErr(cols, "Failed to search points")
        : found \in QdrantSearchPoints(cols, collection, query_vector, limit,
                                       score_threshold)}

search_no_threshold(cols, collection, query_vector, limit, score_threshold) ==
    search_with(cols, collection, query_vector, limit, 0)

search(cols, collection, query_vector, limit, score_threshold) ==
    search_with(cols, collection, query_vector, limit,
                unwrap_or(score_threshold, 0))

delete_documents(cols, collection, ids) ==
    LET point_ids == [i \in 1..Len(ids) |-> PointIdUuid(ids[i])]
        deleted == QdrantDeletePoints(cols, collection, point_ids)
    IN  IF deleted.ok THEN StoreOk(deleted.cols, <<>>)
        ELSE StoreErr(deleted.cols, "Failed to delete documents")

(* The semantic search tool: crates/assistant_tools/src/                    *)
(* semantic_search_tool.rs.  A query is a string; the index embeds it and   *)
(* searches the store with the embedding.                                   *)
IndexCollection == "code"

Queries == {"first query", "second query"}

QueryEmbedding(query) ==
    IF query = "first query" THEN <<5, 0>> ELSE <<-3, 4>>

InvalidInput ==
    [valid |-> FALSE, query |-> "", limit |-> None, threshold |-> None]

SemanticSearchInput(query, limit, threshold) ==
    [valid |-> TRUE, query |-> query, limit |-> limit, threshold |-> threshold]

SemanticSearchInputs ==
    {InvalidInput} \cup
    {SemanticSearchInput(q, l, t) :
        q \in Queries,
        l \in {None} \cup {Some(n) : n \in 1..MaxLimit},
        t \in Thresholds}

ProjectIndexSearch(cols, queries, limit) ==
    search(cols, IndexCollection, QueryEmbedding(queries[1]), limit, None)

LoadResults(results) ==
    [i \in 1..Len(results) |->
        [full_path |-> results[i].file_path,
         row_range |-> <<results[i].start_line, results[i].end_line>>,
         excerpt_content |-> results[i].content]]

ToolOutput(message, entries) ==
    [status |-> "ok", error |-> "", text |-> message, entries |-> entries]

ToolErr(error) ==
    [status |-> "err", error |-> error, text |-> "", entries |-> <<>>]

run(cols, input) ==
    IF ~input.valid THEN {ToolErr("Invalid input")}
    ELSE LET query == input.query
             limit == unwrap_or(input.limit, 10)
             _threshold == unwrap_or(input.threshold, 50)
         IN  {IF results.status = "err" THEN ToolErr(results.error)
              ELSE LET loaded_results == LoadResults(results.value) IN
                   IF loaded_results = <<>>
                   THEN ToolOutput("No results found for the query.", <<>>)
                   ELSE ToolOutput("",
                            [i \in 1..Len(loaded_results) |->
                                [full_path |-> loaded_results[i].full_path,
                                 start_line |-> loaded_results[i].row_range[1],
                                 end_line |-> loaded_results[i].row_range[2],
                                 excerpt_content |->
                                     loaded_results[i].excerpt_content]])
                 : results \in ProjectIndexSearch(cols, <<query>>, limit)}

(* No call made yet, and an empty server. *)
NoReply == [op |-> "none", status |-> "none", detail |-> <<>>]

StoreIdle ==
    /\ collections = {}
    /\ first_size = [n \in CollectionNames |-> 0]
    /\ latest = [n \in CollectionNames |-> {}]
    /\ reply = NoReply

----------------------------------------------------------------------------
(* The GPU embedding provider: crates/semantic_index/src/embedding/gpu.rs.  *)
(* A text is written as the sequence of the ids of its words.  The          *)
(* tokenizer, the tensors and the model are outside the repository: the     *)
(* tokenizer is taken to give one id per word and to end every encoding     *)
(* with the end-of-text id, the model's pooled output for a row of the      *)
(* batch is written as that row (its padded ids and its mask), and either   *)
(* may fail on any micro-batch.                                             *)

MAX_SEQUENCE_LENGTH == 8192

EndOfText == 9

Words == {1, 2}

EmbedTexts == SeqsUpTo(Words, MaxWords)

encode(words, add_special_tokens) ==
    IF add_special_tokens THEN Append(words, EndOfText) ELSE words

(* Vec::resize(new_len, value): cut, or fill up with the value. *)
resize(v, new_len, value) ==
    IF Len(v) >= new_len THEN SubSeq(v, 1, new_len)
    ELSE v \o [k \in 1..(new_len - Len(v)) |-> value]

MaxLength(token_ids) ==
    IF token_ids = <<>> THEN 0
    ELSE LET i == CHOOSE i \in 1..Len(token_ids) :
                     \A j \in 1..Len(token_ids) :
                         Len(token_ids[i]) >= Len(token_ids[j])
         IN  Len(token_ids[i])

min(a, b) == IF a <= b THEN a ELSE b

(* The numbers of one row.  The hidden state the model gives a token is a   *)
(* small integer vector, read from a table that stands for the weights; a   *)
(* real number is an exact fraction [num, den], and den = 0 is a division   *)
(* by zero.                                                                 *)
HiddenState(id) ==
    CASE id = 1 -> <<3, 4>>
      [] id = 2 -> <<0, 5>>
      [] id = EndOfText -> <<-3, -4>>
      [] OTHER -> <<7, 7>>

forward(input_ids) == [k \in 1..Len(input_ids) |-> HiddenState(input_ids[k])]

RECURSIVE SumOver(_, _, _)
SumOver(outputs, attention_mask, k) ==
    IF k = 0 THEN <<0, 0>>
    ELSE LET rest == SumOver(outputs, attention_mask, k - 1)
         IN  [h \in 1..2 |-> rest[h] + outputs[k][h] * attention_mask[k]]

RECURSIVE CountOver(_, _)
CountOver(attention_mask, k) ==
    IF k = 0 THEN 0 ELSE CountOver(attention_mask, k - 1) + attention_mask[k]

(* One row of TensorExt::mean_pool: the masked sum over the mask's sum. *)
mean_pool(outputs, attention_mask) ==
    [num |-> SumOver(outputs, attention_mask, Len(outputs)),
     den |-> CountOver(attention_mask, Len(attention_mask))]

(* The normalization of a pooled row: the row over its L2 norm, the norm    *)
(* clamped from below to a small epsilon.  The norm is kept by its square;  *)
(* the vector is the row over the square root of divisor_sq.                *)
EpsilonInverse == 1000

Less(a, b) == a.num * b.den < b.num * a.den

NormSquared(row) ==
    [num |-> Dot(row.num, row.num), den |-> row.den * row.den]

normalize_skipped(row) == [row |-> row, divisor_sq |-> [num |-> 1, den |-> 1]]

normalize(row) ==
    LET norm_sq == NormSquared(row)
        epsilon_sq == [num |-> 1, den |-> EpsilonInverse * EpsilonInverse]
    IN  [row |-> row,
         divisor_sq |-> IF Less(norm_sq, epsilon_sq) THEN epsilon_sq
                        ELSE norm_sq]

Embedding(input_ids, attention_mask) ==
    [input_ids |-> input_ids, attention_mask |-> attention_mask,
     vector |-> normalize(mean_pool(forward(input_ids), attention_mask))]

EmbedOk(embeddings) == [status |-> "ok", error |-> "", value |-> embeddings]

EmbedErr(error) == [status |-> "err", error |-> error, value |-> <<>>]

EmbedNotReturned == [status |-> "none", error |-> "", value |-> <<>>]

(* What the tokenizer and the model do with one micro-batch. *)
Outcomes == {"ok", "tokenizer fails", "tensor or model fails"}

embed_batch(texts, outcome) ==
    IF outcome = "tokenizer fails" THEN EmbedErr("Failed to tokenize texts")
    ELSE LET token_ids == [i \in 1..Len(texts) |-> encode(texts[i], TRUE)]
             max_len == min(MaxLength(token_ids), MAX_SEQUENCE_LENGTH)
             input_ids == [i \in 1..Len(texts) |->
                              resize(token_ids[i], max_len, 0)]
             attention_mask ==
                 [i \in 1..Len(texts) |->
                     resize([k \in 1..Len(token_ids[i]) |-> 1], max_len, 0)]
         IN  IF outcome = "tensor or model fails"
             THEN EmbedErr("tensor or model error")
             ELSE EmbedOk([i \in 1..Len(texts) |->
                              Embedding(input_ids[i], attention_mask[i])])

(* Vec::extend, and a variant that puts the new embeddings in front. *)
extend_front(all, embeddings) == embeddings \o all

extend(all, embeddings) == all \o embeddings

(* No embed call. *)
EmbedIdle ==
    /\ embed_texts = <<>>
    /\ batch_size = 1
    /\ consumed = 0
    /\ all_embeddings = <<>>
    /\ embed_ret = EmbedNotReturned
    /\ outcomes = <<>>

(* Concurrent embed calls on one provider: the callers, and the state with  *)
(* no such call.  holder is the caller that holds the lock of               *)
(* Arc<Mutex<BertModel>>, 0 when it is free.                                *)
Callers == 1..MaxCallers

(* A caller of create_collection: where its call is, the dimension it asks  *)
(* for, and what the call returned.                                         *)
NotCreating == [at |-> "none", vector_size |-> 0, status |-> "none"]

CallersIdle ==
    /\ stage = [c \in Callers |-> "returned"]
    /\ todo = [c \in Callers |-> 0]
    /\ holder = 0
    /\ creating = [c \in Callers |-> NotCreating]

----------------------------------------------------------------------------
(* The chunker's calls.  A state holds one call: its inputs, tree-sitter's *)
(* answer for them, and, once the call has run, what it returned.          *)

(* The language names and file paths the calls are tried with: every      *)
(* parser is reached by one call or another, and so is the lack of one     *)
(* ("markdown" and the last two paths).                                    *)
TextLanguages == {"python", "go", "markdown"}
ContentLanguages == {"javascript", "markdown"}

FilePaths ==
    {<<"a", ".", "r", "s">>, <<"a", ".", "j", "s", "x">>, <<"a", ".", "t", "s">>,
     <<"a", ".", "p", "y">>, <<"a", ".", "g", "o">>,
     <<"x", ".", "u", "n", "k", "n", "o", "w", "n">>, <<"r", "s">>}

(* The nodes a query can capture: non-empty byte ranges that start and end *)
(* on a character boundary.                                                *)
(* A node starts and ends with a token, never with a line terminator.      *)
Nodes(t) ==
    {<<s, e>> \in (0..Len(t)) \X (0..Len(t)) :
        /\ s < e /\ IsCharBoundary(t, s) /\ IsCharBoundary(t, e)
        /\ t[s + 1] \notin {LF, CR} /\ t[e] \notin {LF, CR}}

(* The captured nodes are nodes of one syntax tree, met in the order of    *)
(* the cursor's walk: a node comes before the nodes inside it and before   *)
(* the nodes after it, and two nodes never overlap in part.                *)
Before(m, n) ==
    \/ m[1] < n[1] /\ (m[2] <= n[1] \/ n[2] <= m[2])
    \/ m[1] = n[1] /\ n[2] < m[2]

Walks(t) ==
    {ns \in UNION {[1..k -> Nodes(t)] : k \in 0..MaxMatches} :
        \A j, k \in 1..Len(ns) : j < k => Before(ns[j], ns[k])}

(* The texts whose trees are enumerated; any other text is tried with no   *)
(* tree and with a tree the query matches nothing in.                      *)
ParsedTexts == TextsOf(ParsedChars, MaxParsedChars)

(* Every pattern of every query holds one capture, so a match carries one: *)
(* a node and the index of the capture's name.                             *)
MatchList(ns, is) == [k \in 1..Len(ns) |-> <<[node |-> ns[k], index |-> is[k]]>>]

LanguageOf(c, a) ==
    IF c = "get_chunks" THEN detect_language(a) ELSE a

InitChunker ==
    /\ call \in {"chunk_text", "get_chunks", "get_chunks_from_content"}
    /\ arg \in CASE call = "chunk_text" -> TextLanguages \cup {NoLanguage}
               [] call = "get_chunks" -> FilePaths
               [] OTHER -> ContentLanguages
    /\ text \in IF call = "chunk_text" /\ arg = NoLanguage
                THEN SmallTexts \cup LongByteTexts
                ELSE SmallTexts \cup LongLineTexts
    /\ IF ~Supported(LanguageOf(call, arg)) THEN tree = NoTree
       ELSE \/ tree = NoTree
            \/ tree = Tree(<<>>)
            \/ /\ text \in ParsedTexts
               /\ \E ns \in Walks(text) \ {<<>>} :
                    \E is \in [1..Len(ns) ->
                                0..(Len(Parsers[LanguageOf(call, arg)]) - 1)] :
                        tree = Tree(MatchList(ns, is))
    /\ ret = NotReturned
    /\ StoreIdle
    /\ EmbedIdle
    /\ CallersIdle

ChunkText ==
    /\ call = "chunk_text"
    /\ ret = NotReturned
    /\ ret' = chunk_text(text, arg, tree)
    /\ UNCHANGED <<call, text, arg, tree, storeVars, embedVars, callerVars>>

GetChunks ==
    /\ call = "get_chunks"
    /\ ret = NotReturned
    /\ ret' = get_chunks(arg, text, tree)
    /\ UNCHANGED <<call, text, arg, tree, storeVars, embedVars, callerVars>>

GetChunksFromContent ==
    /\ call = "get_chunks_from_content"
    /\ ret = NotReturned
    /\ ret' = get_chunks_from_content(text, arg, tree)
    /\ UNCHANGED <<call, text, arg, tree, storeVars, embedVars, callerVars>>

NextChunker == ChunkText \/ GetChunks \/ GetChunksFromContent

SpecChunker == InitChunker /\ [][NextChunker]_vars

----------------------------------------------------------------------------
(* The store and the tool as a state machine: each action is one call, and  *)
(* reply holds the last call's answer.  first_size and latest are history:  *)
(* the dimension the first create_collection call of a name asked for, and, *)
(* per collection, the last document inserted under each id and not deleted *)
(* since.                                                                   *)
Batches == SeqsUpTo(Documents, MaxBatch) \ {<<>>}

IdLists == SeqsUpTo(DocumentIds, MaxBatch) \ {<<>>}

LastInserted(before, documents) ==
    {d \in before : \A i \in 1..Len(documents) : documents[i].id # d.id}
    \cup {documents[i] : i \in {j \in 1..Len(documents) :
                \A k \in (j + 1)..Len(documents) :
                    documents[k].id # documents[j].id}}

PointCount(cols, name) ==
    IF HasCollection(cols, name)
    THEN Cardinality(CollectionOf(cols, name).points) ELSE 0

ChunkerIdle ==
    /\ call = "none"
    /\ text = <<>>
    /\ arg = "none"
    /\ tree = NoTree
    /\ ret = NotReturned

InitStore == ChunkerIdle /\ StoreIdle /\ EmbedIdle /\ CallersIdle

CreateCollection ==
    \E name \in CollectionNames, vector_size \in VectorSizes :
        LET r == create_collection(collections, name, vector_size) IN
        /\ collections' = r.cols
        /\ first_size' = IF first_size[name] = 0
                         THEN [first_size EXCEPT ![name] = vector_size]
                         ELSE first_size
        /\ reply' = [op |-> "create_collection", status |-> r.status,
                     detail |-> [name |-> name,
                                 vector_size |-> vector_size,
                                 before |-> {c \in collections :
                                                c.name = name}]]
        /\ UNCHANGED <<latest, chunkerVars, embedVars, callerVars>>

InsertDocuments ==
    \E collection \in CollectionNames, documents \in Batches :
        LET r == insert_documents(collections, collection, documents) IN
        /\ collections' = r.cols
        /\ latest' = IF r.status = "ok"
                     THEN [latest EXCEPT ![collection] =
                              LastInserted(@, documents)]
                     ELSE latest
        /\ reply' = [op |-> "insert_documents", status |-> r.status,
                     detail |-> [collection |-> collection,
                                 count_before |->
                                     PointCount(collections, collection),
                                 stored_before |->
                                     \A i \in 1..Len(documents) :
                                         documents[i] \in latest[collection]]]
        /\ UNCHANGED <<first_size, chunkerVars, embedVars, callerVars>>

Search ==
    \E collection \in CollectionNames, query_vector \in QueryVectors,
       limit \in 0..MaxLimit, score_threshold \in Thresholds :
        \E r \in search(collections, collection, query_vector, limit,
                        score_threshold) :
            /\ reply' = [op |-> "search", status |-> r.status,
                         detail |-> [collection |-> collection,
                                     query_vector |-> query_vector,
                                     limit |-> limit,
                                     score_threshold |-> score_threshold,
                                     results |-> r.value]]
            /\ UNCHANGED <<collections, first_size, latest, chunkerVars, embedVars,
                           callerVars>>

DeleteDocuments ==
    \E collection \in CollectionNames, ids \in IdLists :
        LET r == delete_documents(collections, collection, ids) IN
        /\ collections' = r.cols
        /\ latest' = IF r.status = "ok"
                     THEN [latest EXCEPT ![collection] =
                              {d \in @ : \A i \in 1..Len(ids) : ids[i] # d.id}]
                     ELSE latest
        /\ reply' = [op |-> "delete_documents", status |-> r.status,
                     detail |-> [collection |-> collection]]
        /\ UNCHANGED <<first_size, chunkerVars, embedVars, callerVars>>

RunTool ==
    \E input \in SemanticSearchInputs :
        \E output \in run(collections, input) :
            /\ reply' = [op |-> "semantic_search", status |-> output.status,
                         detail |-> [input |-> input, output |-> output]]
            /\ UNCHANGED <<collections, first_size, latest, chunkerVars, embedVars,
                           callerVars>>

NextStore == CreateCollection \/ InsertDocuments \/ Search \/ DeleteDocuments

SpecStore == InitStore /\ [][NextStore]_vars

NextTool == CreateCollection \/ InsertDocuments \/ RunTool

SpecTool == InitStore /\ [][NextTool]_vars

----------------------------------------------------------------------------
(* One call of embed: consumed counts the texts of the micro-batches done.  *)
(* The loop awaits every micro-batch, so an iteration is a step.            *)
InitEmbed ==
    /\ embed_texts \in SeqsUpTo(EmbedTexts, MaxTexts)
    /\ batch_size \in 1..MaxBatchSize
    /\ consumed = 0
    /\ all_embeddings = <<>>
    /\ embed_ret = EmbedNotReturned
    /\ outcomes = <<>>
    /\ ChunkerIdle
    /\ StoreIdle
    /\ CallersIdle

(* A variant of the loop that goes on after a micro-batch has failed. *)
EmbedBatchSkipFailed ==
    /\ embed_ret = EmbedNotReturned
    /\ consumed < Len(embed_texts)
    /\ \E outcome \in Outcomes :
        LET chunk == SubSeq(embed_texts, consumed + 1,
                            min(consumed + batch_size, Len(embed_texts)))
            embeddings == embed_batch(chunk, outcome)
        IN  /\ outcomes' = Append(outcomes, outcome)
            /\ all_embeddings' = extend(all_embeddings, embeddings.value)
            /\ consumed' = consumed + Len(chunk)
            /\ UNCHANGED embed_ret
    /\ UNCHANGED <<embed_texts, batch_size, chunkerVars, storeVars, callerVars>>

EmbedBatch ==
    /\ embed_ret = EmbedNotReturned
    /\ consumed < Len(embed_texts)
    /\ \E outcome \in Outcomes :
        LET chunk == SubSeq(embed_texts, consumed + 1,
                            min(consumed + batch_size, Len(embed_texts)))
            embeddings == embed_batch(chunk, outcome)
        IN  /\ outcomes' = Append(outcomes, outcome)
            /\ IF embeddings.status = "err"
               THEN /\ embed_ret' = embeddings
                    /\ all_embeddings' = <<>>
                    /\ UNCHANGED consumed
               ELSE /\ all_embeddings' = extend(all_embeddings,
                                                embeddings.value)
                    /\ consumed' = consumed + Len(chunk)
                    /\ UNCHANGED embed_ret
    /\ UNCHANGED <<embed_texts, batch_size, chunkerVars, storeVars, callerVars>>

EmbedReturn ==
    /\ embed_ret = EmbedNotReturned
    /\ consumed = Len(embed_texts)
    /\ embed_ret' = EmbedOk(all_embeddings)
    /\ UNCHANGED <<embed_texts, batch_size, consumed, all_embeddings,
                   outcomes, chunkerVars, storeVars, callerVars>>

NextEmbed == EmbedBatch \/ EmbedReturn

SpecEmbed == InitEmbed /\ [][NextEmbed]_vars

----------------------------------------------------------------------------
(* Concurrent embed calls on one provider.  Each caller runs the loop of    *)
(* embed; of a micro-batch only the steps around the lock are kept: the     *)
(* tokenizing and the building of the tensors before model.lock(), the      *)
(* forward pass and the pooling under the lock, and the drop of the guard   *)
(* when embed_batch returns, with or without an error.                      *)
InitCallers ==
    /\ stage = [c \in Callers |-> "ready"]
    /\ todo \in [Callers -> 0..MaxMicroBatches]
    /\ holder = 0
    /\ creating = [c \in Callers |-> NotCreating]
    /\ ChunkerIdle
    /\ StoreIdle
    /\ EmbedIdle

Tokenize(c) ==
    /\ stage[c] = "ready"
    /\ todo[c] > 0
    /\ \E outcome \in {"ok", "tokenizer fails"} :
        stage' = [stage EXCEPT ![c] = IF outcome = "ok" THEN "waiting" ELSE "failed"]
    /\ UNCHANGED <<todo, holder, creating, chunkerVars, storeVars, embedVars>>

(* A variant that takes the model without looking at the lock. *)
LockUnguarded(c) ==
    /\ stage[c] = "waiting"
    /\ holder' = c
    /\ stage' = [stage EXCEPT ![c] = "forward"]
    /\ UNCHANGED <<todo, creating, chunkerVars, storeVars, embedVars>>

Lock(c) ==
    /\ stage[c] = "waiting"
    /\ holder = 0
    /\ holder' = c
    /\ stage' = [stage EXCEPT ![c] = "forward"]
    /\ UNCHANGED <<todo, creating, chunkerVars, storeVars, embedVars>>

Forward(c) ==
    /\ stage[c] = "forward"
    /\ \E outcome \in {"ok", "tensor or model fails"} :
        IF outcome = "ok"
        THEN /\ stage' = [stage EXCEPT ![c] = "pooling"]
             /\ UNCHANGED holder
        ELSE /\ stage' = [stage EXCEPT ![c] = "failed"]
             /\ holder' = 0
    /\ UNCHANGED <<todo, creating, chunkerVars, storeVars, embedVars>>

Pool(c) ==
    /\ stage[c] = "pooling"
    /\ holder' = 0
    /\ \E outcome \in {"ok", "tensor or model fails"} :
        IF outcome = "ok"
        THEN /\ stage' = [stage EXCEPT ![c] = "ready"]
             /\ todo' = [todo EXCEPT ![c] = @ - 1]
        ELSE /\ stage' = [stage EXCEPT ![c] = "failed"]
             /\ UNCHANGED todo
    /\ UNCHANGED <<creating, chunkerVars, storeVars, embedVars>>

Return(c) ==
    /\ stage[c] = "ready"
    /\ todo[c] = 0
    /\ stage' = [stage EXCEPT ![c] = "returned"]
    /\ UNCHANGED <<todo, holder, creating, chunkerVars, storeVars, embedVars>>

NextCallers ==
    \E c \in Callers :
        Tokenize(c) \/ Lock(c) \/ Forward(c) \/ Pool(c) \/ Return(c)

(* A thread that blocks in lock() gets the lock once it stays free, and the *)
(* code under the lock runs without awaiting anything.                      *)
FairCallers ==
    \A c \in Callers :
        WF_vars(Lock(c)) /\ WF_vars(Forward(c)) /\ WF_vars(Pool(c))

SpecCallers == InitCallers /\ [][NextCallers]_vars /\ FairCallers

----------------------------------------------------------------------------
(* Concurrent create_collection calls for one name.  A call awaits two      *)
(* requests, collection_info and create_collection, and the calls of other  *)
(* callers may come between them.  A caller whose call has returned may     *)
(* call again.                                                              *)
RaceName == "code"

InitRace ==
    /\ creating \in [Callers -> {[at |-> "called", vector_size |-> size,
                                  status |-> "none"] : size \in VectorSizes}]
    /\ stage = [c \in Callers |-> "returned"]
    /\ todo = [c \in Callers |-> 0]
    /\ holder = 0
    /\ ChunkerIdle
    /\ StoreIdle
    /\ EmbedIdle

CheckExists(c) ==
    /\ creating[c].at = "called"
    /\ LET exists == collection_exists(collections, RaceName) IN
       creating' = [creating EXCEPT ![c] =
                       IF exists.status = "err"
                       THEN [@ EXCEPT !.at = "returned", !.status = "err"]
                       ELSE IF exists.value
                       THEN [@ EXCEPT !.at = "returned", !.status = "ok"]
                       ELSE [@ EXCEPT !.at = "checked"]]
    /\ UNCHANGED <<stage, todo, holder, chunkerVars, storeVars, embedVars>>

SendCreate(c) ==
    /\ creating[c].at = "checked"
    /\ LET made == QdrantCreateCollection(collections, RaceName,
                                          creating[c].vector_size,
                                          "Cosine", FALSE)
       IN  /\ collections' = made.cols
           /\ creating' = [creating EXCEPT ![c] =
                              [@ EXCEPT !.at = "returned",
                                        !.status = IF made.ok THEN "ok"
                                                   ELSE "err"]]
    /\ UNCHANGED <<stage, todo, holder, first_size, latest, reply,
                   chunkerVars, embedVars>>

CallAgain(c) ==
    /\ creating[c].at = "returned"
    /\ \E size \in VectorSizes :
        creating' = [creating EXCEPT ![c] =
                        [at |-> "called", vector_size |-> size,
                         status |-> "none"]]
    /\ UNCHANGED <<stage, todo, holder, chunkerVars, storeVars, embedVars>>

NextRace == \E c \in Callers : CheckExists(c) \/ SendCreate(c) \/ CallAgain(c)

SpecRace == InitRace /\ [][NextRace]_vars

----------------------------------------------------------------------------
(* Properties of the chunker, checked under SpecChunker. *)

Returned == ret.status # "none"

Language == LanguageOf(call, arg)

CeilDiv(n, d) == (n + d - 1) \div d

(* source[range], where the range is one of the source. *)
SourceAt(t, range) ==
    IF range[1] <= range[2] /\ range[2] <= Len(t)
    THEN Slice(t, range[1], range[2])
    ELSE <<"no such range">>

(* C1: every chunk chunk_text returns for a text with a language holds, as *)
(* its content, the bytes of the text at the chunk's byte range.           *)
C1_ContentIsSourceAtRange ==
    (call = "chunk_text" /\ arg # NoLanguage /\ ret.status = "ok") =>
        \A k \in 1..Len(ret.chunks) :
            ret.chunks[k].content = SourceAt(text, ret.chunks[k].range)

(* C2: without a language, the text_block ranges chunk_text returns split  *)
(* the text: they start at 0, follow one another without gap or overlap,   *)
(* end at the text's length, are non-empty and at most 1000 bytes long,    *)
(* and a range that is not the last ends just after the last line feed of  *)
(* its 1000-byte window when the window holds one.                         *)
C2_TextBlocksPartition ==
    (call = "chunk_text" /\ arg = NoLanguage /\ ret.status = "ok") =>
        LET cs == ret.chunks
            n == Len(cs)
        IN  /\ (n = 0) <=> (Len(text) = 0)
            /\ n > 0 => cs[1].range[1] = 0 /\ cs[n].range[2] = Len(text)
            /\ \A k \in 1..(n - 1) : cs[k + 1].range[1] = cs[k].range[2]
            /\ \A k \in 1..n :
                /\ cs[k].element_type = "text_block"
                /\ cs[k].range[1] < cs[k].range[2]
                /\ cs[k].range[2] - cs[k].range[1] <= 1000
                /\ cs[k].content = SourceAt(text, cs[k].range)
            /\ \A k \in 1..(n - 1) :
                LET s == cs[k].range[1]
                    e == cs[k].range[2]
                    w == IF s + 1000 < Len(text) THEN s + 1000 ELSE Len(text)
                IN  (\E i \in (s + 1)..w : text[i] = LF) =>
                        /\ text[e] = LF
                        /\ e <= w
                        /\ \A i \in (e + 1)..w : text[i] # LF

C2_Witness ==
    /\ call = "chunk_text" /\ arg = NoLanguage /\ ret.status = "ok"
    /\ Len(ret.chunks) >= 3
    /\ \E k \in 1..(Len(ret.chunks) - 1) :
        /\ ret.chunks[k].range[2] - ret.chunks[k].range[1] < 1000
        /\ text[ret.chunks[k].range[2]] = LF

(* C8: a call never returns an error because the parser produced no tree:  *)
(* it returns the line windows of the text instead.                        *)
C8_NoTreeFallsBack ==
    (Returned /\ Supported(Language) /\ ~tree.parsed) =>
        /\ ret.status = "ok"
        /\ Len(ret.chunks) = CeilDiv(Len(Lines(text)), 50)
        /\ \A k \in 1..Len(ret.chunks) : ret.chunks[k].element_type = "code_block"

(* C9: for a language without parser, or a tree the query matches nothing  *)
(* in, get_chunks and get_chunks_from_content return the windows of 50     *)
(* lines: window i (from 0) is a code_block from line 50*i to the line     *)
(* before the next window's first, the last one ends at the last line, its *)
(* content is its lines joined by line feeds, and a text of no lines has   *)
(* no window; 125 lines give the windows 0-49, 50-99 and 100-124.          *)
C9_LineWindows ==
    (/\ call \in {"get_chunks", "get_chunks_from_content"}
     /\ Returned
     /\ (~Supported(Language) \/ (tree.parsed /\ tree.matches = <<>>))) =>
        LET ls == Lines(text)
            n == Len(ls)
            cs == ret.chunks
        IN  /\ ret.status = "ok"
            /\ Len(cs) = CeilDiv(n, 50)
            /\ \A k \in 1..Len(cs) :
                /\ cs[k].element_type = "code_block"
                /\ cs[k].start_line = 50 * (k - 1)
                /\ cs[k].end_line >= cs[k].start_line
                /\ cs[k].end_line = (IF k < Len(cs) THEN cs[k + 1].start_line ELSE n) - 1
                /\ cs[k].content =
                       Join(SubSeq(ls, cs[k].start_line + 1, cs[k].end_line + 1), <<LF>>)
            /\ n = 125 =>
                /\ [k \in 1..Len(cs) |-> cs[k].start_line] = <<0, 50, 100>>
                /\ [k \in 1..Len(cs) |-> cs[k].end_line] = <<49, 99, 124>>

C9_Witness ==
    /\ call = "get_chunks" /\ Returned
    /\ ~Supported(Language)
    /\ Len(Lines(text)) = 125
    /\ Len(ret.chunks) = 3

(* C10: for a supported language and a tree with captured nodes, the       *)
(* chunker returns one chunk per capture in the cursor's order, named by   *)
(* the capture and spanning the node's rows, and no code_block; so a .rs   *)
(* file with a function, a struct and an impl captured yields chunks of    *)
(* these three types.                                                      *)
C10_ChunkPerCapture ==
    (Returned /\ Supported(Language) /\ tree.parsed /\ tree.matches # <<>>) =>
        LET caps == Captures(tree.matches)
            cs == ret.chunks
            names == Parsers[Language]
        IN  /\ ret.status = "ok"
            /\ Len(cs) = Len(caps)
            /\ \A k \in 1..Len(cs) :
                /\ cs[k].element_type = names[caps[k].index + 1]
                /\ cs[k].element_type # "code_block"
                /\ cs[k].content = SourceAt(text, caps[k].node)
                /\ call # "chunk_text" =>
                    /\ cs[k].start_line =
                           Cardinality({i \in 1..caps[k].node[1] : text[i] = LF})
                    /\ cs[k].end_line =
                           Cardinality({i \in 1..caps[k].node[2] : text[i] = LF})
            /\ (/\ call = "get_chunks"
                /\ arg = <<"a", ".", "r", "s">>
                /\ {"function", "struct", "impl"} \subseteq
                       {names[caps[k].index + 1] : k \in 1..Len(caps)}) =>
                    {"function", "struct", "impl"} \subseteq
                        {cs[k].element_type : k \in 1..Len(cs)}

C10_Witness ==
    /\ call = "get_chunks" /\ arg = <<"a", ".", "r", "s">> /\ Returned
    /\ tree.parsed /\ Len(tree.matches) = 3
    /\ [k \in 1..3 |-> ret.chunks[k].element_type] = <<"impl", "function", "struct">>
    /\ ret.chunks[1].start_line < ret.chunks[1].end_line
    /\ ret.chunks[3].start_line = ret.chunks[1].end_line

----------------------------------------------------------------------------
(* Properties of the vector store, checked under SpecStore, and of the      *)
(* search tool, checked under SpecTool.                                     *)

(* The threshold a search call asked for, 0 when it gave none, and the      *)
(* stored points that reach it.                                             *)
AskedThreshold == IF reply.detail.score_threshold.some
                  THEN reply.detail.score_threshold.v ELSE 0

Passing ==
    IF HasCollection(collections, reply.detail.collection)
    THEN {p \in CollectionOf(collections, reply.detail.collection).points :
             Cosine100(reply.detail.query_vector, p.vectors) >= AskedThreshold}
    ELSE {}

(* C5: a search that succeeds returns at most limit results, each with a    *)
(* score at or above the threshold asked for (0 when none is given), in     *)
(* non-increasing order of score; the results are the stored points that    *)
(* reach the threshold, as many as the limit allows, each once, with the    *)
(* point's id, score and content.                                           *)
C5_SearchBounded ==
    (reply.op = "search" /\ reply.status = "ok") =>
        LET r == reply.detail.results
            n == Len(r)
        IN  /\ n <= reply.detail.limit
            /\ \A i \in 1..n : r[i].score >= AskedThreshold
            /\ \A i, j \in 1..n : i < j =>
                   r[i].score >= r[j].score /\ r[i].id # r[j].id
            /\ n = IF reply.detail.limit < Cardinality(Passing)
                   THEN reply.detail.limit ELSE Cardinality(Passing)
            /\ \A i \in 1..n : \E p \in Passing :
                   /\ p.id.uuid = r[i].id
                   /\ r[i].score =
                          Cosine100(reply.detail.query_vector, p.vectors)
                   /\ \E v \in Versions :
                          /\ p.vectors = EmbeddingOf(v)
                          /\ r[i].content = v
                          /\ r[i].file_path = DocumentMetadata(v).file_path
                          /\ r[i].start_line = DocumentMetadata(v).start_line
                          /\ r[i].end_line = DocumentMetadata(v).end_line

(* A search with a threshold of 0.5 and a limit of 2 over two stored points *)
(* returned the one point that reaches the threshold.                       *)
C5_Witness ==
    /\ reply.op = "search"
    /\ reply.status = "ok"
    /\ reply.detail.score_threshold = Some(50)
    /\ reply.detail.limit = 2
    /\ Len(reply.detail.results) = 1
    /\ PointCount(collections, reply.detail.collection) = 2

(* C6: a collection holds at most one point per id, the point of an id      *)
(* carries the vector and the metadata of the last document inserted under  *)
(* that id, every document inserted and not deleted since is held, and an   *)
(* insert of documents that are all stored already leaves the number of     *)
(* points unchanged.                                                        *)
C6_InsertIsUpsert ==
    /\ \A c \in collections :
        /\ \A p, q \in c.points : p.id = q.id => p = q
        /\ \A p \in c.points : \E d \in latest[c.name] :
               /\ p.id.kind = "Uuid"
               /\ p.id.uuid = d.id
               /\ p.vectors = d.embedding
               /\ StringField(p.payload, "content") = d.metadata.content
               /\ StringField(p.payload, "file_path") = d.metadata.file_path
               /\ IntegerField(p.payload, "start_line") = d.metadata.start_line
               /\ IntegerField(p.payload, "end_line") = d.metadata.end_line
        /\ \A d \in latest[c.name] : \E p \in c.points : p.id.uuid = d.id
    /\ (/\ reply.op = "insert_documents"
        /\ reply.status = "ok"
        /\ reply.detail.stored_before)
       => PointCount(collections, reply.detail.collection)
              = reply.detail.count_before

(* An insert replaced the one stored document by another version of it.     *)
C6_Witness ==
    /\ reply.op = "insert_documents"
    /\ reply.status = "ok"
    /\ ~reply.detail.stored_before
    /\ reply.detail.count_before = 1
    /\ PointCount(collections, reply.detail.collection) = 1

(* C7: once create_collection has been called for a name, one collection of *)
(* that name exists, with cosine distance and the dimension of the first    *)
(* call; every call succeeds, and a call for a name that has a collection   *)
(* leaves the collection, its dimension and its points as they were.        *)
C7_CreateIdempotent ==
    /\ \A name \in CollectionNames : first_size[name] # 0 =>
        /\ Cardinality({c \in collections : c.name = name}) = 1
        /\ \A c \in collections : c.name = name =>
               /\ c.size = first_size[name]
               /\ c.distance = "Cosine"
    /\ reply.op = "create_collection" =>
        /\ reply.status = "ok"
        /\ reply.detail.before # {} =>
               {c \in collections : c.name = reply.detail.name}
                   = reply.detail.before

(* create_collection was called with another dimension for a collection     *)
(* that holds points.                                                       *)
C7_Witness ==
    /\ reply.op = "create_collection"
    /\ reply.detail.before # {}
    /\ reply.detail.vector_size # first_size[reply.detail.name]
    /\ PointCount(collections, reply.detail.name) > 0

(* C4: the tool's output holds no result whose similarity to the query is   *)
(* below the threshold of the input, 0.5 when the input gives none.         *)
C4_ThresholdApplied ==
    (reply.op = "semantic_search" /\ reply.status = "ok") =>
        LET input == reply.detail.input
            entries == reply.detail.output.entries
            threshold == IF input.threshold.some THEN input.threshold.v ELSE 50
        IN  \A i \in 1..Len(entries) :
                Cosine100(QueryEmbedding(input.query),
                          EmbeddingOf(entries[i].excerpt_content)) >= threshold

----------------------------------------------------------------------------
(* Properties of the embedding provider, checked under SpecEmbed.           *)

(* The ids of an embedding's row that its attention mask keeps. *)
Attended(e) ==
    LET kept == {k \in 1..Len(e.attention_mask) : e.attention_mask[k] = 1}
    IN  [k \in 1..Cardinality(kept) |-> e.input_ids[k]]

(* C3: when embed succeeds it returns one embedding per input text, and the *)
(* embedding at position i is the one of input i: its row holds the tokens  *)
(* of that text and its mask keeps exactly these.                           *)
C3_OnePerInputInOrder ==
    embed_ret.status = "ok" =>
        /\ Len(embed_ret.value) = Len(embed_texts)
        /\ \A i \in 1..Len(embed_texts) :
            LET e == embed_ret.value[i]
                n == Len(embed_texts[i]) + 1
            IN  /\ Attended(e) = Append(embed_texts[i], 9)
                /\ \A k \in 1..Len(e.attention_mask) :
                       e.attention_mask[k] = (IF k <= n THEN 1 ELSE 0)

(* embed succeeded on three texts in two micro-batches, the first of which  *)
(* was padded.                                                              *)
C3_Witness ==
    /\ embed_ret.status = "ok"
    /\ Len(embed_texts) = 3
    /\ batch_size = 2
    /\ Len(embed_texts[1]) # Len(embed_texts[2])
    /\ embed_texts[3] # embed_texts[1]
    /\ embed_texts[3] # embed_texts[2]

----------------------------------------------------------------------------
(* Properties of chunk_text_simple on multi-byte text, checked under        *)
(* SpecChunker.                                                             *)

(* C16: chunk_text_simple returns normally for every text: a call of        *)
(* chunk_text without a language that has run has returned its chunks and   *)
(* has not panicked on a window that ends inside a multi-byte character.    *)
C16_SimpleReturnsNormally ==
    (call = "chunk_text" /\ arg = NoLanguage /\ ret # NotReturned) =>
        ret.status = "ok"

----------------------------------------------------------------------------
(* Properties of a failing embed call, checked under SpecEmbed.             *)

(* C12: when a micro-batch of an embed call fails, the call returns that    *)
(* micro-batch's error and no embedding, and runs no micro-batch after it:  *)
(* a failed micro-batch is the last one run, and the call has then returned *)
(* its error with nothing else; a call that returned embeddings had no      *)
(* failed micro-batch.                                                      *)
C12_FailureDiscardsAll ==
    /\ \A i \in 1..Len(outcomes) : outcomes[i] # "ok" =>
        /\ i = Len(outcomes)
        /\ embed_ret.status = "err"
        /\ embed_ret.value = <<>>
        /\ embed_ret.error = (IF outcomes[i] = "tokenizer fails"
                              THEN "Failed to tokenize texts"
                              ELSE "tensor or model error")
    /\ embed_ret.status = "err" =>
        /\ outcomes # <<>>
        /\ outcomes[Len(outcomes)] # "ok"

(* The third micro-batch of a call failed after two had succeeded.          *)
C12_Witness ==
    /\ embed_ret.status = "err"
    /\ outcomes = <<"ok", "ok", "tensor or model fails">>
    /\ Len(embed_texts) > consumed
    /\ consumed = 2 * batch_size

----------------------------------------------------------------------------
(* Properties of concurrent embed calls, checked under SpecCallers.         *)

(* The callers inside model.forward. *)
InForward == {c \in Callers : stage[c] = "forward"}

(* C11: at every moment at most one caller is inside model.forward, the     *)
(* lock is held by a caller exactly from its lock() to the return of its    *)
(* embed_batch, and a caller that waits for the lock eventually runs its    *)
(* forward pass.                                                            *)
C11_OneForwardAtATime ==
    /\ [](/\ Cardinality(InForward) <= 1
          /\ \A c \in Callers :
                (stage[c] \in {"forward", "pooling"}) <=> (holder = c))
    /\ \A c \in Callers : (stage[c] = "waiting") ~> (stage[c] = "forward")

(* One caller is inside the forward pass of its second micro-batch while    *)
(* another waits for the lock.                                              *)
C11_Witness ==
    /\ stage[1] = "forward"
    /\ todo[1] = 1
    /\ stage[2] = "waiting"
    /\ holder = 1

----------------------------------------------------------------------------
(* Properties of document ids, checked under SpecStore.                     *)

(* C13: insert_documents and delete_documents take ids of both shapes, the  *)
(* UUID text and the decimal number: a delete on a collection that exists   *)
(* succeeds whether or not its ids are stored, and so does an insert of     *)
(* documents whose vectors have the collection's dimension.                 *)
C13_IdsKeepShape ==
    /\ (/\ reply.op = "delete_documents"
        /\ HasCollection(collections, reply.detail.collection))
       => reply.status = "ok"
    /\ (/\ reply.op = "insert_documents"
        /\ HasCollection(collections, reply.detail.collection)
        /\ CollectionOf(collections, reply.detail.collection).size
               = Len(EmbeddingOf("v1")))
       => reply.status = "ok"

----------------------------------------------------------------------------
(* Properties of the returned vectors, checked under SpecEmbed.             *)

(* The square of the L2 norm of a returned vector, as a fraction. *)
VectorNormSquared(v) ==
    LET n == NormSquared(v.row)
    IN  [num |-> n.num * v.divisor_sq.den, den |-> n.den * v.divisor_sq.num]

Finite(v) == v.row.den > 0 /\ v.divisor_sq.num > 0 /\ v.divisor_sq.den > 0

(* A norm within 1e-4 of 1 has a square between 0.9998 and 1.0002. *)
UnitNorm(v) ==
    LET n == VectorNormSquared(v)
    IN  /\ n.den > 0
        /\ n.num * 10000 >= n.den * 9998
        /\ n.num * 10000 <= n.den * 10002

----------------------------------------------------------------------------
(* Properties of concurrent create_collection calls, checked under          *)
(* SpecRace.                                                                *)

(* C15: every create_collection call that has returned has returned         *)
(* success, and one collection of the name exists from then on.             *)
C15_RaceAllSucceed ==
    \A c \in Callers : creating[c].at = "returned" =>
        /\ creating[c].status = "ok"
        /\ Cardinality({col \in collections : col.name = RaceName}) = 1

====
